---- MODULE Spec2Model ----
(***************************************************************************)
(* A model of src/index.js: the geometry value types (Rect), the aspect-   *)
(* fill drawing routine, the Composition / Passthrough / Crossfade         *)
(* classes, and the page glue (go, drawFrame).                             *)
(*                                                                         *)
(* Numbers: JavaScript numbers are modelled as exact rationals <<n, d>>    *)
(* (d > 0, lowest terms); floating-point rounding is not modelled.         *)
(***************************************************************************)
EXTENDS Integers, Sequences, FiniteSets, TLC

(***************************************************************************)
(* Bounds of the model.                                                    *)
(***************************************************************************)
\* natural sizes and rectangle sizes range over 0..MaxDim (plus 100, 200)
MaxDim == 3
\* compositions one page session creates (go() calls that construct one)
MaxComps == 2
\* children of the shelf when go() runs
MaxShelf == 2
\* sources of the Passthrough object driven through its methods
MaxVideos == 3
\* ended events handled after one play()
MaxEnds == 3
\* saved context states a throwing draw() may leave behind
MaxDepth == 2

(***************************************************************************)
(* Exact rational arithmetic.                                              *)
(***************************************************************************)
Abs(n) == IF n < 0 THEN -n ELSE n

RECURSIVE GCD(_, _)
GCD(a, b) == IF b = 0 THEN a ELSE GCD(b, a % b)

\* the rational n/d (d # 0) in lowest terms with a positive denominator
RNorm(n, d) ==
    LET g == GCD(Abs(n), Abs(d))
        s == IF d < 0 THEN -1 ELSE 1
    IN  <<(s * n) \div g, (s * d) \div g>>

R(n) == <<n, 1>>
RAdd(a, b) == RNorm(a[1] * b[2] + b[1] * a[2], a[2] * b[2])
RSub(a, b) == RNorm(a[1] * b[2] - b[1] * a[2], a[2] * b[2])
RMul(a, b) == RNorm(a[1] * b[1], a[2] * b[2])
RDiv(a, b) == RNorm(a[1] * b[2], a[2] * b[1])
RLess(a, b) == a[1] * b[2] < b[1] * a[2]
RLeq(a, b) == a[1] * b[2] <= b[1] * a[2]

(***************************************************************************)
(* Rect, Point, Size.                                                      *)
(***************************************************************************)
Point(x, y) == [x |-> x, y |-> y]

Size(width, height) == [width |-> width, height |-> height]

Rect(x, y, w, h) == [origin |-> Point(x, y), size |-> Size(w, h)]

\* Rect.inset as written: the Y origin is moved by dx
inset(r, dx, dy) ==
    Rect(r.origin.x + dx, r.origin.y + dx,
         r.size.width - 2 * dx, r.size.height - 2 * dy)

\* a rectangle of integers as a rectangle of JS numbers
RRect(r) ==
    Rect(R(r.origin.x), R(r.origin.y), R(r.size.width), R(r.size.height))

minX(r) == r.origin.x

midX(r) == RAdd(r.origin.x, RDiv(r.size.width, R(2)))

minY(r) == r.origin.y

midY(r) == RAdd(r.origin.y, RDiv(r.size.height, R(2)))

\* a centeredIn() that forgets the origin of the outer rectangle
centeredInNoOrigin(r, outer) ==
    Rect(RDiv(RSub(outer.size.width, r.size.width), R(2)),
         RDiv(RSub(outer.size.height, r.size.height), R(2)),
         r.size.width, r.size.height)

\* Rect.centeredIn, on rectangles of JS numbers
centeredIn(r, outer) ==
    Rect(RAdd(minX(outer), RDiv(RSub(outer.size.width, r.size.width), R(2))),
         RAdd(minY(outer), RDiv(RSub(outer.size.height, r.size.height), R(2))),
         r.size.width, r.size.height)

(***************************************************************************)
(* The 2D drawing context: a stack of saved states, the current transform  *)
(* (scale and translation only: the code never rotates) and the list of    *)
(* clip rectangles (device space) whose intersection is the clip region.   *)
(***************************************************************************)
IdentityTransform == [sx |-> R(1), sy |-> R(1), tx |-> R(0), ty |-> R(0)]

NewContext == [stack |-> <<>>, tf |-> IdentityTransform, clip |-> <<>>]

CtxSave(ctx) ==
    [ctx EXCEPT !.stack = Append(@, [tf |-> ctx.tf, clip |-> ctx.clip])]

\* restore() with an empty stack does nothing
CtxRestore(ctx) ==
    IF ctx.stack = <<>> THEN ctx
    ELSE LET top == ctx.stack[Len(ctx.stack)]
         IN  [stack |-> SubSeq(ctx.stack, 1, Len(ctx.stack) - 1),
              tf |-> top.tf, clip |-> top.clip]

CtxTranslate(ctx, x, y) ==
    [ctx EXCEPT !.tf.tx = RAdd(@, RMul(ctx.tf.sx, x)),
                !.tf.ty = RAdd(@, RMul(ctx.tf.sy, y))]

CtxScale(ctx, x, y) ==
    [ctx EXCEPT !.tf.sx = RMul(@, x), !.tf.sy = RMul(@, y)]

\* the device-space rectangle of the user-space rectangle (0, 0, w, h)
DeviceRect(ctx, w, h) ==
    [x |-> ctx.tf.tx, y |-> ctx.tf.ty,
     w |-> RMul(ctx.tf.sx, w), h |-> RMul(ctx.tf.sy, h)]

\* beginPath(); rect(0, 0, w, h); clip()
CtxClipRect(ctx, w, h) ==
    [ctx EXCEPT !.clip = Append(@, DeviceRect(ctx, w, h))]

NoImage == [drawn |-> FALSE]

\* drawImage(image, 0, 0): the image at its natural size under the transform
CtxDrawImage(ctx, image) ==
    [drawn |-> TRUE,
     at |-> DeviceRect(ctx, R(image.naturalWidth), R(image.naturalHeight)),
     scale |-> <<ctx.tf.sx, ctx.tf.sy>>,
     clip |-> ctx.clip]

(***************************************************************************)
(* CanvasRenderingContext2D.prototype.drawImageAspectFill                  *)
(***************************************************************************)
\* the routine with its two branches exchanged (aspect-fit: letterboxing)
drawImageAspectFit(ctx, image, dstRect) ==
    LET iw == image.naturalWidth
        ih == image.naturalHeight
        dw == dstRect.size.width
        dh == dstRect.size.height
    IN  IF iw = 0 \/ ih = 0 \/ dw = 0 \/ dh = 0
        THEN [ctx |-> ctx, img |-> NoImage]
        ELSE LET srcAspect == RDiv(R(iw), R(ih))
                 dstAspect == RDiv(R(dw), R(dh))
                 c1 == CtxSave(ctx)
                 c2 == CtxTranslate(c1, R(dstRect.origin.x), R(dstRect.origin.y))
                 c3 == CtxClipRect(c2, R(dw), R(dh))
                 wide == ~RLess(srcAspect, dstAspect)
                 scale == IF wide THEN RDiv(R(dw), R(iw)) ELSE RDiv(R(dh), R(ih))
                 c4 == IF wide
                       THEN CtxTranslate(c3, R(0),
                              RDiv(RSub(R(dh), RMul(R(ih), scale)), R(2)))
                       ELSE CtxTranslate(c3,
                              RDiv(RSub(R(dw), RMul(R(iw), scale)), R(2)), R(0))
                 c5 == CtxScale(c4, scale, scale)
             IN  [ctx |-> CtxRestore(c5), img |-> CtxDrawImage(c5, image)]

drawImageAspectFill(ctx, image, dstRect) ==
    LET iw == image.naturalWidth
        ih == image.naturalHeight
        dw == dstRect.size.width
        dh == dstRect.size.height
    IN  IF iw = 0 \/ ih = 0 \/ dw = 0 \/ dh = 0
        THEN [ctx |-> ctx, img |-> NoImage]
        ELSE LET srcAspect == RDiv(R(iw), R(ih))
                 dstAspect == RDiv(R(dw), R(dh))
                 c1 == CtxSave(ctx)
                 c2 == CtxTranslate(c1, R(dstRect.origin.x), R(dstRect.origin.y))
                 c3 == CtxClipRect(c2, R(dw), R(dh))
                 tall == RLess(srcAspect, dstAspect)
                 scale == IF tall THEN RDiv(R(dw), R(iw)) ELSE RDiv(R(dh), R(ih))
                 c4 == IF tall
                       THEN CtxTranslate(c3, R(0),
                              RDiv(RSub(R(dh), RMul(R(ih), scale)), R(2)))
                       ELSE CtxTranslate(c3,
                              RDiv(RSub(R(dw), RMul(R(iw), scale)), R(2)), R(0))
                 c5 == CtxScale(c4, scale, scale)
             IN  [ctx |-> CtxRestore(c5), img |-> CtxDrawImage(c5, image)]

(***************************************************************************)
(* Video elements.  A source is "paused" (as created, or after pause()),   *)
(* "playing" (after play()) or "ended" (it played to its end).             *)
(***************************************************************************)
VideoPause(v) == "paused"

VideoPlay(v) == "playing"

\* the value of a field the constructor never assigns (vidIdx)
Undefined == -2

Modes == {"nop", "crossfade", "other"}

(***************************************************************************)
(* Composition, Passthrough, Crossfade.  An instance is a record: kind,    *)
(* videos (the state of each owned source, source k of the code at         *)
(* position k + 1), playing ("undefined" until play() or stop() assigns    *)
(* it), vidIdx, and pend, the sources whose 'ended' event is queued.       *)
(***************************************************************************)
NewVideos(n) == [k \in 1..n |-> "paused"]

\* new Passthrough(canvas, videos): playing and vidIdx are left unassigned
NewPassthrough(n) ==
    [kind |-> "Passthrough", videos |-> NewVideos(n), playing |-> "undefined",
     vidIdx |-> Undefined, pend |-> {}]

NewCrossfade(n) ==
    [kind |-> "Crossfade", videos |-> NewVideos(n), playing |-> "undefined",
     vidIdx |-> Undefined, pend |-> {}]

PauseAll(vs) == [k \in DOMAIN vs |-> VideoPause(vs[k])]

\* a stop() that clears the flag and pauses nothing
PassthroughStopFlagOnly(c) == [c EXCEPT !.playing = "false"]

\* a stop() that also resets the index
PassthroughStopResetIdx(c) ==
    [c EXCEPT !.playing = "false", !.videos = PauseAll(c.videos), !.vidIdx = -1]

PassthroughStop(c) ==
    [c EXCEPT !.playing = "false", !.videos = PauseAll(c.videos)]

\* Composition.stop() is empty; Crossfade inherits it
stop(c) == IF c.kind = "Passthrough" THEN PassthroughStop(c) ELSE c

\* a playNext() that does not wrap at the end of the list
playNextNoWrap(c) ==
    IF Len(c.videos) = 0 THEN c
    ELSE LET vs == IF c.vidIdx # -1
                   THEN [c.videos EXCEPT ![c.vidIdx + 1] = VideoPause(@)]
                   ELSE c.videos
             idx == IF c.vidIdx + 1 = Len(c.videos) THEN c.vidIdx ELSE c.vidIdx + 1
         IN  [c EXCEPT !.vidIdx = idx,
                       !.videos = [vs EXCEPT ![idx + 1] = VideoPlay(@)]]

\* a playNext() that does not pause the source it leaves
playNextNoPause(c) ==
    IF Len(c.videos) = 0 THEN c
    ELSE LET inc == c.vidIdx + 1
             idx == IF inc = Len(c.videos) THEN 0 ELSE inc
         IN  [c EXCEPT !.vidIdx = idx,
                       !.videos = [c.videos EXCEPT ![idx + 1] = VideoPlay(@)]]

playNext(c) ==
    IF Len(c.videos) = 0 THEN c
    ELSE LET vs == IF c.vidIdx # -1
                   THEN [c.videos EXCEPT ![c.vidIdx + 1] = VideoPause(@)]
                   ELSE c.videos
             inc == c.vidIdx + 1
             idx == IF inc = Len(c.videos) THEN 0 ELSE inc
         IN  [c EXCEPT !.vidIdx = idx,
                       !.videos = [vs EXCEPT ![idx + 1] = VideoPlay(@)]]

\* a play() that does not stop first
PassthroughPlayNoStop(c) ==
    playNext([c EXCEPT !.playing = "true", !.vidIdx = -1])

PassthroughPlay(c) ==
    playNext([stop(c) EXCEPT !.playing = "true", !.vidIdx = -1])

\* a play() that every kind of composition shares with Passthrough
playAnyKind(c) == PassthroughPlay(c)

\* Composition.play() is empty; Crossfade inherits it
play(c) == IF c.kind = "Passthrough" THEN PassthroughPlay(c) ELSE c

\* a handleEnd() that does not look at the playing flag
handleEndUnchecked(c) == playNext(c)

handleEnd(c) == IF c.playing = "true" THEN playNext(c) ELSE c

(***************************************************************************)
(* Composition.draw and the drawInContext hook.  The result is the         *)
(* instance and the context after the call, what the canvas shows and      *)
(* whether the call threw.                                                 *)
(***************************************************************************)
\* Passthrough.drawInContext; Composition.drawInContext is empty.  With an
\* empty list and playing set, videos[vidIdx] is videos[-1], undefined, and
\* drawImageAspectFill throws a TypeError reading its naturalWidth.
\* a hook that moves to the next source on every frame it draws
drawInContextAdvancing(c, cx, size, image) ==
    IF c.kind # "Passthrough" \/ c.playing # "true"
    THEN [comp |-> c, ctx |-> cx, frame |-> FALSE, threw |-> FALSE]
    ELSE IF c.vidIdx + 1 \notin DOMAIN c.videos
    THEN [comp |-> c, ctx |-> cx, frame |-> FALSE, threw |-> TRUE]
    ELSE LET r == drawImageAspectFill(cx, image,
                                      Rect(0, 0, size.width, size.height))
         IN  [comp |-> playNext(c), ctx |-> r.ctx, frame |-> r.img.drawn,
              threw |-> FALSE]

drawInContext(c, cx, size, image) ==
    IF c.kind # "Passthrough" \/ c.playing # "true"
    THEN [comp |-> c, ctx |-> cx, frame |-> FALSE, threw |-> FALSE]
    ELSE IF c.vidIdx + 1 \notin DOMAIN c.videos
    THEN [comp |-> c, ctx |-> cx, frame |-> FALSE, threw |-> TRUE]
    ELSE LET r == drawImageAspectFill(cx, image,
                                      Rect(0, 0, size.width, size.height))
         IN  [comp |-> c, ctx |-> r.ctx, frame |-> r.img.drawn, threw |-> FALSE]

\* save, fill with black, the hook, restore; an exception of the hook
\* leaves the function before restore()
draw(c, cx, size, image) ==
    LET r == drawInContext(c, CtxSave(cx), size, image)
    IN  IF r.threw
        THEN [comp |-> r.comp, ctx |-> r.ctx, content |-> "background",
              threw |-> TRUE]
        ELSE [comp |-> r.comp, ctx |-> CtxRestore(r.ctx),
              content |-> IF r.frame THEN "frame" ELSE "background",
              threw |-> FALSE]

(***************************************************************************)
(* go(): tear down the running composition, then create and play the one   *)
(* the mode names.                                                         *)
(***************************************************************************)
\* a teardown that drops the handle without calling stop()
goTeardownNoStop(cs, h) == [comps |-> cs, handle |-> 0]

goTeardown(cs, h) ==
    IF h # 0
    THEN [comps |-> [cs EXCEPT ![h] = stop(@)], handle |-> 0]
    ELSE [comps |-> cs, handle |-> h]

\* a go() that falls back to Passthrough for an unknown mode
goDefaultNop(cs, h, mode, n) ==
    LET t == goTeardown(cs, h)
    IN  IF mode = "crossfade"
        THEN [comps |-> Append(t.comps, play(NewCrossfade(n))),
              handle |-> Len(t.comps) + 1]
        ELSE [comps |-> Append(t.comps, play(NewPassthrough(n))),
              handle |-> Len(t.comps) + 1]

go(cs, h, mode, n) ==
    LET t == goTeardown(cs, h)
    IN  CASE mode = "nop" ->
               [comps |-> Append(t.comps, play(NewPassthrough(n))),
                handle |-> Len(t.comps) + 1]
          [] mode = "crossfade" ->
               [comps |-> Append(t.comps, play(NewCrossfade(n))),
                handle |-> Len(t.comps) + 1]
          [] OTHER -> t

(***************************************************************************)
(* State.                                                                  *)
(***************************************************************************)
VARIABLES
    comps,       \* every composition instance created so far
    handle,      \* window.videoComposition: an index of comps, 0 when unset
    ctx,         \* the 2D context of the output canvas
    canvas,      \* what the canvas shows: "blank", "background" or "frame"
    rafPending,  \* drawFrame is scheduled for the next animation frame
    ends,        \* per instance: ended events handled since its last play()
    lastOp,      \* the operation that produced this state
    gIn,         \* arguments of the geometry routines
    gOut         \* result of the geometry routine applied last

vars == <<comps, handle, ctx, canvas, rafPending, ends, lastOp, gIn, gOut>>

Op(op, inst, mode, threw) ==
    [op |-> op, inst |-> inst, mode |-> mode, threw |-> threw]

GeoIdle ==
    [image |-> [naturalWidth |-> 0, naturalHeight |-> 0],
     dstRect |-> Rect(0, 0, 0, 0), dx |-> 0, dy |-> 0]

VideoSizes ==
    {[naturalWidth |-> 0, naturalHeight |-> 0],
     [naturalWidth |-> 2, naturalHeight |-> 1],
     [naturalWidth |-> 1, naturalHeight |-> 2]}

CanvasSizes == {Size(0, 0), Size(2, 2)}

\* the counters after a step: an instance that is not playing counts nothing
EndsAfter(cs, es) ==
    [i \in DOMAIN cs |->
        IF cs[i].playing = "true" /\ i \in DOMAIN es THEN es[i] ELSE 0]

GeoUnused == gIn = GeoIdle /\ gOut = [fn |-> "none"]

\* the page after setup(): no composition, drawFrame scheduled
Init ==
    /\ comps = <<>>
    /\ handle = 0
    /\ ctx = NewContext
    /\ canvas = "blank"
    /\ rafPending = TRUE
    /\ ends = <<>>
    /\ lastOp = Op("setup", 0, "", FALSE)
    /\ GeoUnused

\* a click on the go button with the selector at mode and n clips in the shelf
Go(mode, n) ==
    /\ mode \in {"nop", "crossfade"} => Len(comps) < MaxComps
    /\ LET r == go(comps, handle, mode, n)
       IN  /\ comps' = r.comps
           /\ handle' = r.handle
           /\ ends' = EndsAfter(r.comps, [i \in DOMAIN r.comps |-> 0])
    /\ lastOp' = Op("go", 0, mode, FALSE)
    /\ UNCHANGED <<ctx, canvas, rafPending, gIn, gOut>>

\* source v of instance i plays to its end: its 'ended' event is queued
VideoEnds(i, v) ==
    /\ comps[i].videos[v] = "playing"
    /\ v \notin comps[i].pend
    /\ comps' = [comps EXCEPT ![i].videos[v] = "ended", ![i].pend = @ \cup {v}]
    /\ lastOp' = Op("videoEnds", i, "", FALSE)
    /\ UNCHANGED <<handle, ctx, canvas, rafPending, ends, gIn, gOut>>

\* the queued 'ended' event of source v reaches the listener of instance i
DeliverEnded(i, v) ==
    /\ v \in comps[i].pend
    /\ comps[i].playing = "true" => ends[i] < MaxEnds
    /\ LET c == [comps[i] EXCEPT !.pend = @ \ {v}]
       IN  comps' = [comps EXCEPT
                       ![i] = IF c.kind = "Passthrough" THEN handleEnd(c) ELSE c]
    /\ ends' = [ends EXCEPT ![i] = IF comps[i].playing = "true" THEN @ + 1 ELSE 0]
    /\ lastOp' = Op("ended", i, "", FALSE)
    /\ UNCHANGED <<handle, ctx, canvas, rafPending, gIn, gOut>>

\* the animation frame callback
DrawFrame ==
    /\ rafPending
    /\ IF handle = 0
       THEN /\ lastOp' = Op("drawFrame", 0, "", FALSE)
            /\ UNCHANGED <<comps, ctx, canvas, rafPending>>
       ELSE \E image \in VideoSizes, size \in CanvasSizes :
              LET r == draw(comps[handle], ctx, size, image)
              IN  /\ r.threw => Len(ctx.stack) < MaxDepth
                  /\ comps' = [comps EXCEPT ![handle] = r.comp]
                  /\ ctx' = r.ctx
                  /\ canvas' = r.content
                  /\ rafPending' = ~r.threw
                  /\ lastOp' = Op("draw", handle, "", r.threw)
    /\ UNCHANGED <<handle, ends, gIn, gOut>>

Next ==
    \/ \E mode \in Modes, n \in 0..MaxShelf : Go(mode, n)
    \/ \E i \in DOMAIN comps : \E v \in DOMAIN comps[i].videos : VideoEnds(i, v)
    \/ \E i \in DOMAIN comps : \E v \in DOMAIN comps[i].videos : DeliverEnded(i, v)
    \/ DrawFrame

Spec == Init /\ [][Next]_vars

(***************************************************************************)
(* The page without a bound on the ended events an instance handles (the   *)
(* counter ends is not kept), with the scheduling the browser gives: a     *)
(* source that keeps playing reaches its end, and a queued 'ended' event   *)
(* is dispatched.                                                          *)
(***************************************************************************)
DeliverEndedUncounted(i, v) ==
    /\ v \in comps[i].pend
    /\ LET c == [comps[i] EXCEPT !.pend = @ \ {v}]
       IN  comps' = [comps EXCEPT
                       ![i] = IF c.kind = "Passthrough" THEN handleEnd(c) ELSE c]
    /\ lastOp' = Op("ended", i, "", FALSE)
    /\ UNCHANGED <<handle, ctx, canvas, rafPending, ends, gIn, gOut>>

HasSource(i, v) == i \in DOMAIN comps /\ v \in DOMAIN comps[i].videos

NextLive ==
    \/ \E mode \in Modes, n \in 0..MaxShelf : Go(mode, n)
    \/ \E i \in DOMAIN comps : \E v \in DOMAIN comps[i].videos : VideoEnds(i, v)
    \/ \E i \in DOMAIN comps : \E v \in DOMAIN comps[i].videos :
          DeliverEndedUncounted(i, v)
    \/ DrawFrame

Fairness ==
    \A i \in 1..MaxComps, v \in 1..MaxShelf :
        /\ WF_vars(HasSource(i, v) /\ VideoEnds(i, v))
        /\ WF_vars(HasSource(i, v) /\ DeliverEndedUncounted(i, v))

SpecLive == Init /\ [][NextLive]_vars /\ Fairness

(***************************************************************************)
(* One Passthrough object driven through its methods.                      *)
(***************************************************************************)
InitPassthrough ==
    /\ \E n \in 0..MaxVideos : comps = <<NewPassthrough(n)>>
    /\ handle = 0
    /\ ctx = NewContext
    /\ canvas = "blank"
    /\ rafPending = FALSE
    /\ ends = <<0>>
    /\ lastOp = Op("new", 1, "", FALSE)
    /\ GeoUnused

Play(i) ==
    /\ comps' = [comps EXCEPT ![i] = play(@)]
    /\ ends' = [ends EXCEPT ![i] = 0]
    /\ lastOp' = Op("play", i, "", FALSE)
    /\ UNCHANGED <<handle, ctx, canvas, rafPending, gIn, gOut>>

Stop(i) ==
    /\ comps' = [comps EXCEPT ![i] = stop(@)]
    /\ ends' = [ends EXCEPT ![i] = 0]
    /\ lastOp' = Op("stop", i, "", FALSE)
    /\ UNCHANGED <<handle, ctx, canvas, rafPending, gIn, gOut>>

Draw(i) ==
    /\ \E image \in VideoSizes, size \in CanvasSizes :
         LET r == draw(comps[i], ctx, size, image)
         IN  /\ r.threw => Len(ctx.stack) < MaxDepth
             /\ comps' = [comps EXCEPT ![i] = r.comp]
             /\ ctx' = r.ctx
             /\ canvas' = r.content
             /\ lastOp' = Op("draw", i, "", r.threw)
    /\ UNCHANGED <<handle, rafPending, ends, gIn, gOut>>

NextPassthrough ==
    \/ \E i \in DOMAIN comps : Play(i)
    \/ \E i \in DOMAIN comps : Stop(i)
    \/ \E i \in DOMAIN comps : \E v \in DOMAIN comps[i].videos : VideoEnds(i, v)
    \/ \E i \in DOMAIN comps : \E v \in DOMAIN comps[i].videos : DeliverEnded(i, v)
    \/ \E i \in DOMAIN comps : Draw(i)

SpecPassthrough == InitPassthrough /\ [][NextPassthrough]_vars

(***************************************************************************)
(* The geometry routines applied to arguments drawn from bounded sets.     *)
(***************************************************************************)
Dims == (0..MaxDim) \cup {100, 200}

Deltas == {-1, 0, 1}

InitGeom ==
    /\ comps = <<>>
    /\ handle = 0
    /\ ctx = NewContext
    /\ canvas = "blank"
    /\ rafPending = FALSE
    /\ ends = <<>>
    /\ lastOp = Op("setup", 0, "", FALSE)
    /\ \E iw \in Dims, ih \in Dims, w \in Dims, h \in Dims,
          x \in {0, 1}, y \in {0, 2}, dx \in Deltas, dy \in Deltas :
         gIn = [image |-> [naturalWidth |-> iw, naturalHeight |-> ih],
                dstRect |-> Rect(x, y, w, h), dx |-> dx, dy |-> dy]
    /\ gOut = [fn |-> "none"]

ApplyAspectFill ==
    /\ LET r == drawImageAspectFill(ctx, gIn.image, gIn.dstRect)
       IN  /\ ctx' = r.ctx
           /\ gOut' = [fn |-> "drawImageAspectFill", img |-> r.img]
    /\ UNCHANGED <<comps, handle, canvas, rafPending, ends, lastOp, gIn>>

ApplyInset ==
    /\ gOut' = [fn |-> "inset", rect |-> inset(gIn.dstRect, gIn.dx, gIn.dy)]
    /\ UNCHANGED <<comps, handle, ctx, canvas, rafPending, ends, lastOp, gIn>>

\* the rectangle R of centeredIn: its origin is (dx, dy) and its size the
\* image's, so R and the outer rectangle range over all pairs
GeoRect ==
    Rect(gIn.dx, gIn.dy, gIn.image.naturalWidth, gIn.image.naturalHeight)

ApplyCenteredIn ==
    /\ gOut' = [fn |-> "centeredIn",
                rect |-> centeredIn(RRect(GeoRect), RRect(gIn.dstRect))]
    /\ UNCHANGED <<comps, handle, ctx, canvas, rafPending, ends, lastOp, gIn>>

NextGeom == ApplyAspectFill \/ ApplyInset \/ ApplyCenteredIn

SpecGeom == InitGeom /\ [][NextGeom]_vars

(***************************************************************************)
(* Claims.                                                                 *)
(***************************************************************************)
AllPaused(c) == \A k \in DOMAIN c.videos : c.videos[k] = "paused"

IsPassthrough(i) == i \in DOMAIN comps /\ comps[i].kind = "Passthrough"

\* C1 (SpecPassthrough): while a Passthrough with n >= 1 sources is playing,
\* its active index is k mod n, k being the number of ended events handled
\* since the last play(): 0 right after play(), then 1, ..., n-1, 0, ...
C1_RoundRobin ==
    \A i \in DOMAIN comps :
        (IsPassthrough(i) /\ comps[i].playing = "true" /\ Len(comps[i].videos) >= 1)
            => comps[i].vidIdx = ends[i] % Len(comps[i].videos)

\* three sources, three ended events handled: the index has wrapped to 0
C1_Witness ==
    /\ lastOp.op = "ended"
    /\ Len(comps[1].videos) = 3
    /\ comps[1].playing = "true"
    /\ ends[1] = 3
    /\ comps[1].vidIdx = 0

\* C2 (Spec): the claim as stated: a draw() of a playing Passthrough with an
\* empty source list leaves the background only and does not throw.
C2_EmptyListDrawTolerated ==
    (/\ lastOp.op = "draw"
     /\ IsPassthrough(lastOp.inst)
     /\ Len(comps[lastOp.inst].videos) = 0
     /\ comps[lastOp.inst].playing = "true")
        => (canvas = "background" /\ ~lastOp.threw)

\* C3 (SpecPassthrough): right after stop() playing is false, every source
\* is paused and a further stop() changes nothing; while playing is false
\* every source stays paused and every draw() leaves the background only.
C3_StopHalts ==
    \A i \in DOMAIN comps :
        IsPassthrough(i) =>
            /\ (lastOp.op = "stop" /\ lastOp.inst = i)
                  => /\ comps[i].playing = "false"
                     /\ AllPaused(comps[i])
                     /\ stop(comps[i]) = comps[i]
            /\ comps[i].playing = "false" => AllPaused(comps[i])
            /\ (lastOp.op = "draw" /\ lastOp.inst = i /\ comps[i].playing = "false")
                  => (canvas = "background" /\ ~lastOp.threw)

\* stop() came while index 1 was active, and a draw() followed
C3_Witness ==
    /\ lastOp.op = "draw"
    /\ comps[1].playing = "false"
    /\ comps[1].vidIdx = 1
    /\ canvas = "background"

\* C4 (Spec): an instance that is playing is the one the handle holds, and
\* every source of every other instance is paused.
C4_OneActive ==
    \A i \in DOMAIN comps :
        /\ comps[i].playing = "true" => handle = i
        /\ i # handle => AllPaused(comps[i])

\* a second composition plays after the first was advanced and superseded
C4_Witness ==
    /\ Len(comps) >= 2
    /\ handle = 2
    /\ comps[2].playing = "true"
    /\ Len(comps[2].videos) >= 1
    /\ comps[2].videos[1] = "playing"
    /\ comps[1].kind = "Passthrough"
    /\ comps[1].vidIdx = 1

\* C5 (SpecPassthrough): right after play() on a Passthrough with n >= 1
\* sources playing is true, the index is 0, source 0 plays and the others
\* are paused; and in every reachable state play() twice equals play() once.
C5_PlayResets ==
    \A i \in DOMAIN comps :
        (IsPassthrough(i) /\ Len(comps[i].videos) >= 1) =>
            /\ (lastOp.op = "play" /\ lastOp.inst = i)
                  => /\ comps[i].playing = "true"
                     /\ comps[i].vidIdx = 0
                     /\ comps[i].videos[1] = "playing"
                     /\ \A k \in 2..Len(comps[i].videos) : comps[i].videos[k] = "paused"
            /\ play(play(comps[i])) = play(comps[i])

\* play() called again after source 1 had played to its end
C5_Witness ==
    /\ lastOp.op = "play"
    /\ Len(comps[1].videos) = 3
    /\ 2 \in comps[1].pend
    /\ comps[1].videos[1] = "playing"

\* C6 (Spec): an ended event delivered to an instance the handle no longer
\* holds leaves that instance's flag, index and sources as they were, and
\* changes no other instance nor the handle.
C6_StaleEndInert ==
    [][(lastOp'.op = "ended" /\ lastOp'.inst # handle) =>
          /\ handle' = handle
          /\ DOMAIN comps' = DOMAIN comps
          /\ \A j \in DOMAIN comps :
                /\ comps'[j].videos = comps[j].videos
                /\ comps'[j].vidIdx = comps[j].vidIdx
                /\ comps'[j].playing = comps[j].playing
                /\ j # lastOp'.inst => comps'[j] = comps[j]]_vars

\* a stale event reached a superseded instance while its successor plays
C6_Witness ==
    /\ lastOp.op = "ended"
    /\ handle # 0
    /\ lastOp.inst # handle
    /\ comps[lastOp.inst].kind = "Passthrough"
    /\ comps[handle].playing = "true"

\* C7 (Spec): a go() with an unrecognised mode creates no composition, does
\* not throw, leaves the handle unset and every source of every instance
\* paused, the composition that was running included.
C7_UnknownModeAborts ==
    [][(lastOp'.op = "go" /\ lastOp'.mode \notin {"nop", "crossfade"}) =>
          /\ Len(comps') = Len(comps)
          /\ handle' = 0
          /\ ~lastOp'.threw
          /\ \A j \in DOMAIN comps' : AllPaused(comps'[j])
          /\ \A j \in DOMAIN comps' : comps'[j].playing # "true"]_vars

\* the unrecognised mode was chosen while a Passthrough was running
C7_Witness ==
    /\ lastOp.op = "go"
    /\ lastOp.mode = "other"
    /\ Len(comps) = 1
    /\ comps[1].playing = "false"
    /\ comps[1].vidIdx = 1

C8_Case ==
    /\ gOut.fn = "drawImageAspectFill"
    /\ gIn.image = [naturalWidth |-> 200, naturalHeight |-> 100]
    /\ gIn.dstRect.size = Size(100, 100)

\* C8 (SpecGeom), as stated: 200x100 into 100x100 is drawn at scale 0.5 with
\* no offset on either axis, 100 wide and 50 high.
C8_HalfScale ==
    C8_Case =>
        /\ gOut.img.drawn
        /\ gOut.img.scale = <<RDiv(R(1), R(2)), RDiv(R(1), R(2))>>
        /\ gOut.img.at.x = R(gIn.dstRect.origin.x)
        /\ gOut.img.at.y = R(gIn.dstRect.origin.y)
        /\ gOut.img.at.w = R(100)
        /\ gOut.img.at.h = R(50)

\* C8 (SpecGeom), amended: 200x100 into 100x100 is drawn at scale 1 (the
\* height-matching branch), 200 wide and 100 high, with zero vertical offset
\* and horizontal offset (100 - 200*1)/2 = -50, clipped to the destination.
C8_FullScale ==
    C8_Case =>
        /\ gOut.img.drawn
        /\ gOut.img.scale = <<R(1), R(1)>>
        /\ gOut.img.at.x = R(gIn.dstRect.origin.x - 50)
        /\ gOut.img.at.y = R(gIn.dstRect.origin.y)
        /\ gOut.img.at.w = R(200)
        /\ gOut.img.at.h = R(100)
        /\ gOut.img.clip = <<[x |-> R(gIn.dstRect.origin.x),
                              y |-> R(gIn.dstRect.origin.y),
                              w |-> R(100), h |-> R(100)]>>

C8_Witness == C8_Case /\ gIn.dstRect.origin = Point(1, 2)

C9_Case ==
    /\ gOut.fn = "drawImageAspectFill"
    /\ gIn.image.naturalWidth > 0
    /\ gIn.image.naturalHeight > 0
    /\ gIn.dstRect.size.width > 0
    /\ gIn.dstRect.size.height > 0

\* C9 (SpecGeom): for positive sizes the image is drawn at one scale on both
\* axes, matches the destination on one axis, is at least as large on the
\* other, and its centre is the destination's centre.
C9_FillsAndCentres ==
    C9_Case =>
        LET at == gOut.img.at
            dw == R(gIn.dstRect.size.width)
            dh == R(gIn.dstRect.size.height)
            x == R(gIn.dstRect.origin.x)
            y == R(gIn.dstRect.origin.y)
        IN  /\ gOut.img.drawn
            /\ gOut.img.scale[1] = gOut.img.scale[2]
            /\ at.w = RMul(gOut.img.scale[1], R(gIn.image.naturalWidth))
            /\ at.h = RMul(gOut.img.scale[1], R(gIn.image.naturalHeight))
            /\ (at.w = dw \/ at.h = dh)
            /\ RLeq(dw, at.w)
            /\ RLeq(dh, at.h)
            /\ RAdd(RAdd(at.x, at.x), at.w) = RAdd(RAdd(x, x), dw)
            /\ RAdd(RAdd(at.y, at.y), at.h) = RAdd(RAdd(y, y), dh)

\* a tall source in a wide destination: width matched, height overflowing
C9_Witness ==
    /\ C9_Case
    /\ gIn.image = [naturalWidth |-> 1, naturalHeight |-> 3]
    /\ gIn.dstRect.size = Size(2, 1)
    /\ gOut.img.at.h = R(6)

\* C10 (SpecGeom), as stated: inset(dx, dy) has origin (x + dx, y + dy) and
\* size (w - 2*dx, h - 2*dy), so it keeps the centre of the rectangle.
C10_InsetShrinks ==
    gOut.fn = "inset" =>
        LET r == gIn.dstRect
            o == gOut.rect
        IN  /\ o.origin = Point(r.origin.x + gIn.dx, r.origin.y + gIn.dy)
            /\ o.size = Size(r.size.width - 2 * gIn.dx, r.size.height - 2 * gIn.dy)
            /\ 2 * o.origin.x + o.size.width = 2 * r.origin.x + r.size.width
            /\ 2 * o.origin.y + o.size.height = 2 * r.origin.y + r.size.height

\* C11 (SpecGeom): R.centeredIn(O) has the size of R, and its midX and midY
\* are those of O, whether R is smaller or larger than O.
C11_CenteredIn ==
    gOut.fn = "centeredIn" =>
        /\ gOut.rect.size = RRect(GeoRect).size
        /\ midX(gOut.rect) = midX(RRect(gIn.dstRect))
        /\ midY(gOut.rect) = midY(RRect(gIn.dstRect))

\* R is 3x3 at (-1, 1), O is 2x1 at (1, 2): R is larger than O on both axes
C11_Witness ==
    /\ gOut.fn = "centeredIn"
    /\ GeoRect = Rect(-1, 1, 3, 3)
    /\ gIn.dstRect = Rect(1, 2, 2, 1)
    /\ gOut.rect.origin = Point(RDiv(R(1), R(2)), R(1))

\* C12 (SpecPassthrough): while a Passthrough with n >= 1 sources is
\* playing, its index is in 0..n-1, no source but the one at the index is
\* playing, and every other source is paused.
C12_OneSourceActive ==
    \A i \in DOMAIN comps :
        (IsPassthrough(i) /\ comps[i].playing = "true" /\ Len(comps[i].videos) >= 1)
            => /\ comps[i].vidIdx \in 0..(Len(comps[i].videos) - 1)
               /\ \A k \in DOMAIN comps[i].videos :
                     /\ comps[i].videos[k] = "playing" => k = comps[i].vidIdx + 1
                     /\ k # comps[i].vidIdx + 1 => comps[i].videos[k] = "paused"

\* an ended event was handled with three sources: source 1 plays, the
\* others are paused
C12_Witness ==
    /\ lastOp.op = "ended"
    /\ Len(comps[1].videos) = 3
    /\ comps[1].playing = "true"
    /\ comps[1].vidIdx = 1
    /\ comps[1].videos = <<"paused", "playing", "paused">>
    /\ ends[1] = 1
    /\ comps[1].pend = {}

\* C13 (SpecPassthrough), as stated: a delivered ended event whose source
\* is not the active one, or that arrives while playing is not true, leaves
\* the index and the state of every source as they were.
C13_OnlyActiveSourceAdvances ==
    [][\A i \in DOMAIN comps :
          (lastOp'.op = "ended" /\ lastOp'.inst = i) =>
              \A v \in comps[i].pend \ comps'[i].pend :
                  (comps[i].playing # "true" \/ v # comps[i].vidIdx + 1)
                      => /\ comps'[i].vidIdx = comps[i].vidIdx
                         /\ comps'[i].videos = comps[i].videos]_vars

\* C14 (Spec), as stated: every draw() leaves the drawing context (depth of
\* the saved-state stack, transform, clip) as it found it.
C14_DrawBalanced ==
    [][lastOp'.op = "draw" => ctx' = ctx]_vars

\* C15 (Spec): a draw() changes no instance (flag, index, state of every
\* source) and leaves the handle as it was.
C15_DrawKeepsPlayback ==
    [][lastOp'.op = "draw" => (comps' = comps /\ handle' = handle)]_vars

\* a frame of source 1 was drawn while it plays
C15_Witness ==
    /\ lastOp.op = "draw"
    /\ canvas = "frame"
    /\ handle # 0
    /\ comps[handle].playing = "true"
    /\ comps[handle].vidIdx = 1
    /\ comps[handle].videos[2] = "playing"

\* C16 (SpecPassthrough), as stated: a Passthrough that is not playing has
\* index -1.
C16_IdleIndexMinusOne ==
    \A i \in DOMAIN comps :
        (IsPassthrough(i) /\ comps[i].playing # "true") => comps[i].vidIdx = -1

\* C16 (SpecPassthrough), amended: no step that leaves a Passthrough not
\* playing changes its index: stop() keeps the index of the source that was
\* active (or -1 with no sources), and until play() or stop() first runs
\* the index is unassigned.
C16_IdleIndexKept ==
    [][\A i \in DOMAIN comps :
          (IsPassthrough(i) /\ comps'[i].playing # "true") =>
              /\ comps'[i].vidIdx = comps[i].vidIdx
              /\ comps'[i].playing = "undefined" => comps'[i].vidIdx = Undefined]_vars

\* stop() came while source 1 was active: the index is still 1
C16_Witness ==
    /\ lastOp.op = "stop"
    /\ comps[1].playing = "false"
    /\ comps[1].vidIdx = 1

\* C17 (SpecLive): if from some point on the handle holds the same
\* Passthrough with n >= 1 sources (it is not stopped or superseded again),
\* every index k < n is the active index, its source playing, infinitely
\* often.
C17_EverySourceRecurs ==
    \A i \in 1..MaxComps, k \in 0..(MaxShelf - 1) :
        <>[](handle = i /\ IsPassthrough(i) /\ k < Len(comps[i].videos))
            => []<>(/\ HasSource(i, k + 1)
                    /\ comps[i].vidIdx = k
                    /\ comps[i].videos[k + 1] = "playing")

\* with two sources, an ended event brought the index back to 0
C17_Witness ==
    /\ lastOp.op = "ended"
    /\ handle # 0
    /\ lastOp.inst = handle
    /\ Len(comps[handle].videos) = 2
    /\ comps[handle].playing = "true"
    /\ comps[handle].vidIdx = 0
    /\ comps[handle].videos[1] = "playing"

\* C18 (Spec): a Crossfade composition stays as constructed: no source is
\* started, no ended event is queued or handled, its fields are never
\* assigned, and every draw() of it leaves the background only and does not
\* throw.
C18_CrossfadeInert ==
    \A i \in DOMAIN comps :
        comps[i].kind = "Crossfade" =>
            /\ comps[i] = NewCrossfade(Len(comps[i].videos))
            /\ AllPaused(comps[i])
            /\ (lastOp.op = "ended" => lastOp.inst # i)
            /\ (lastOp.op = "draw" /\ lastOp.inst = i)
                  => (canvas = "background" /\ ~lastOp.threw)

\* a Crossfade over two clips was drawn after a frame of a Passthrough
C18_Witness ==
    /\ lastOp.op = "draw"
    /\ handle = 2
    /\ comps[2].kind = "Crossfade"
    /\ Len(comps[2].videos) = 2
    /\ comps[1].kind = "Passthrough"
    /\ comps[1].vidIdx = 1
    /\ canvas = "background"

====
